---------------------------- MODULE Spec2Model ----------------------------
(***************************************************************************)
(* Model of the NPDL searchlight tools:                                    *)
(*   - lib/npdl_mvpa.py      CachedSurfaceQueryEngine (the query engine)   *)
(*   - data/searchlight/make_searchlight.py  (the precomputation pipeline) *)
(*   - lib/npdl_utils.py     Surface.construct_neighbors (mesh adjacency)  *)
(*                                                                         *)
(* Python values are modelled as follows.  None is the empty tuple <<>>    *)
(* and a present value x is <<x>>.  A dict is a function whose domain is   *)
(* its key set.  A vertex id that may be a non-integer is carried as twice *)
(* its value (an integer h stands for the number h/2).  Text is a sequence *)
(* of one-character strings.                                               *)
(***************************************************************************)
EXTENDS Integers, Sequences, FiniteSets, TLC

VARIABLES
  files,               \* the cache directory: (hemi, radius) -> file text
  qe,                  \* <<>> or <<engine object>> (hemi, radius, sl, invalid, nverts)
  _vertex2feature_map,  \* the engine's _vertex2feature_map: <<>> (None) or <<dict>>
  ret,                 \* outcome of the last engine call
  args,                \* arguments of the last engine call
  hist,                \* last successful train/untrain call on the current engine
  pc, unit, failed, invocations, written,   \* pipeline: position and bookkeeping
  mask, text, decoded, cpc,                 \* encode / decode of one ROI table
  faces, neighbors, spc,                    \* surface mesh and its adjacency table
  readers, frames                           \* concurrent query_byid calls and their local variables

engineVars == <<qe, _vertex2feature_map, ret, args, hist>>
pipeVars   == <<pc, unit, failed, invocations, written>>
codecVars  == <<mask, text, decoded, cpc>>
surfVars   == <<faces, neighbors, spc>>
readerVars == <<readers, frames>>
vars == <<files, engineVars, pipeVars, codecVars, surfVars, readerVars>>

---------------------------------------------------------------------------
(* Bounds of the model *)

\* Number of mesh vertices of the cached surface (32492 in the code,
\* hard-coded in both the engine and the pipeline), scaled down.
NumVerts == 3
\* Number of threads that call query_byid on one engine.
NumReaders == 2
\* Longest feature list a dataset passes to train().
MaxTrainLen == 2
\* At most this many generator failures are explored in one pipeline run.
MaxFailures == 2
\* Number of vertices of the surface mesh given to Surface.
MeshVerts == 3
\* Largest number of triangular faces of that mesh.
MaxFaces == 2

---------------------------------------------------------------------------
(* Generic helpers *)

None == << >>
Some(x) == << x >>
IsNone(o) == o = << >>
Val(o) == o[1]

Abs(x) == IF x < 0 THEN -x ELSE x

Max(a, b) == IF a >= b THEN a ELSE b

RECURSIVE SeqSum(_)
SeqSum(s) == IF s = << >> THEN 0 ELSE Head(s) + SeqSum(Tail(s))

RECURSIVE SeqMax(_)
SeqMax(s) == IF Len(s) = 1 THEN s[1] ELSE Max(Head(s), SeqMax(Tail(s)))

Repeat(x, n) == [i \in 1..n |-> x]

\* Python's range(start, stop, step) / numpy's arange, for step > 0.
PyRange(start, stop, step) ==
  IF stop <= start THEN << >>
  ELSE [i \in 1..((stop - start + step - 1) \div step) |-> start + (i - 1) * step]

Elems(s) == { s[i] : i \in DOMAIN s }

---------------------------------------------------------------------------
(* Text: formatting and parsing of decimal integers *)

DigitChars == << "0", "1", "2", "3", "4", "5", "6", "7", "8", "9" >>

IsDigit(c) == \E d \in 1..10 : DigitChars[d] = c

DigitVal(c) == (CHOOSE d \in 1..10 : DigitChars[d] = c) - 1

RECURSIVE NatToText(_)
NatToText(n) ==
  IF n < 10 THEN << DigitChars[n + 1] >>
  ELSE NatToText(n \div 10) \o << DigitChars[(n % 10) + 1] >>

\* str(n) of a Python / numpy integer.
IntToText(n) == IF n < 0 THEN << "-" >> \o NatToText(-n) ELSE NatToText(n)

\* ndarray.astype('S6') of an integer array element: the decimal text cut to
\* six bytes.
AsS6(n) ==
  LET t == IntToText(n)
  IN  IF Len(t) > 6 THEN SubSeq(t, 1, 6) ELSE t

\* ','.join(row) and '\n'.join(rows): pieces separated by sep.
RECURSIVE Join(_, _)
Join(sep, pieces) ==
  IF pieces = << >> THEN << >>
  ELSE IF Len(pieces) = 1 THEN pieces[1]
  ELSE pieces[1] \o << sep >> \o Join(sep, Tail(pieces))

\* str.replace(old, new) for one-character old and new.
Replace(t, old, new) == [i \in DOMAIN t |-> IF t[i] = old THEN new ELSE t[i]]

\* The pieces of t between occurrences of sep (always at least one piece).
RECURSIVE SplitAcc(_, _, _)
SplitAcc(t, sep, cur) ==
  IF t = << >> THEN << cur >>
  ELSE IF Head(t) = sep THEN << cur >> \o SplitAcc(Tail(t), sep, << >>)
  ELSE SplitAcc(Tail(t), sep, Append(cur, Head(t)))

Split(t, sep) == SplitAcc(t, sep, << >>)

RECURSIVE DigitsVal(_, _)
DigitsVal(t, acc) ==
  IF t = << >> THEN acc ELSE DigitsVal(Tail(t), 10 * acc + DigitVal(Head(t)))

\* A token is a decimal integer: an optional '-' and at least one digit.
IsIntToken(t) ==
  LET body == IF t # << >> /\ t[1] = "-" THEN Tail(t) ELSE t
  IN  body # << >> /\ \A i \in DOMAIN body : IsDigit(body[i])

\* The value of an integer token.  The tokens of a cache file have at most
\* six characters (AsS6, '-99'), so every value fits dtype int32 unchanged.
TokenVal(t) ==
  IF t[1] = "-" THEN -DigitsVal(Tail(t), 0) ELSE DigitsVal(t, 0)

\* np.fromstring(text, dtype='int32', sep=','): the integers of the tokens,
\* in order; parsing stops at the first token that is not an integer.
RECURSIVE ParseTokens(_)
ParseTokens(toks) ==
  IF toks = << >> THEN << >>
  ELSE IF ~IsIntToken(Head(toks)) THEN << >>
  ELSE << TokenVal(Head(toks)) >> \o ParseTokens(Tail(toks))

fromstring(t) == IF t = << >> THEN << >> ELSE ParseTokens(Split(t, ","))

\* ndarray.reshape((n, -1)) of a flat array: <<>> when the size does not
\* allow it (numpy raises ValueError), else <<table>> with n rows.
reshape(flat, n) ==
  IF Len(flat) = 0 \/ Len(flat) % n # 0 THEN None
  ELSE LET w == Len(flat) \div n
       IN  Some([r \in 1..n |-> SubSeq(flat, (r - 1) * w + 1, r * w)])

---------------------------------------------------------------------------
(* The precomputation pipeline, data/searchlight/make_searchlight.py *)

hemis == << "lh", "rh" >>

\* radii = np.arange(4, 21, 2)
radii == PyRange(4, 21, 2)

\* hard-coded number of vertices in 32k_fs_LR (scaled down)
num_verts == NumVerts

\* The (hemi, radius) units in the order the two nested loops visit them.
Units == [i \in 1..(Len(hemis) * Len(radii)) |->
           << hemis[((i - 1) \div Len(radii)) + 1], radii[((i - 1) % Len(radii)) + 1] >>]

NumUnits == Len(Units)

\* Geodesic distance (mm) between vertices of the stand-in mesh: the left
\* hemisphere is a chain of vertices 6 mm apart, the right one a closed ring.
GeoDist(hemi, u, v) ==
  IF hemi = "lh" THEN 6 * Abs(u - v)
  ELSE 6 * (IF Abs(u - v) <= num_verts - Abs(u - v) THEN Abs(u - v) ELSE num_verts - Abs(u - v))

\* What wb_command -surface-geodesic-rois leaves in sl_f when it succeeds, as
\* img_read returns it: one row per source vertex, 1 where the column's
\* vertex lies within the radius and 0 elsewhere.
GenRoi(hemi, radius) ==
  [r \in 1..num_verts |->
     [c \in 1..num_verts |-> IF GeoDist(hemi, r - 1, c - 1) <= radius THEN 1 ELSE 0]]

\* row.nonzero()[0]: the 0-based positions of the nonzero entries, ascending.
RECURSIVE NonzeroFrom(_, _)
NonzeroFrom(row, i) ==
  IF i > Len(row) THEN << >>
  ELSE (IF row[i] # 0 THEN << i - 1 >> ELSE << >>) \o NonzeroFrom(row, i + 1)

nonzero(row) == NonzeroFrom(row, 1)

\* max_row_len = int(np.max(np.sum(sl, 1)))
max_row_len(sl) == SeqMax([r \in DOMAIN sl |-> SeqSum(sl[r])])

\* Variant of PadRow that pads one entry too few.
PadRowShort(row, width) == row \o Repeat(<< "-", "9", "9" >>, width - Len(row) - 1)

\* sl_inds after the padding step: each row's ids as text, padded on the
\* right with '-99' up to max_row_len.  (['-99'] * k is [] for k <= 0.)
PadRow(row, width) == row \o Repeat(<< "-", "9", "9" >>, width - Len(row))

sl_inds(sl) ==
  LET ids  == [r \in DOMAIN sl |-> [k \in DOMAIN nonzero(sl[r]) |-> AsS6(nonzero(sl[r])[k])]]
  IN  [r \in DOMAIN sl |-> PadRow(ids[r], max_row_len(sl))]

\* The text written to the cache file: rows joined by newlines, values by commas.
EncodeTable(sl) ==
  LET padded == sl_inds(sl)
  IN  Join("\n", [r \in DOMAIN padded |-> Join(",", padded[r])])

---------------------------------------------------------------------------
(* The query engine, lib/npdl_mvpa.py: CachedSurfaceQueryEngine *)

\* self.nverts: hard-coded verts of 32k_fs_LR (scaled down)
nverts == NumVerts

\* self.invalid
invalid == -99

\* Outcome of a call: kind is "ok" or "error"; err and msg name the exception
\* type and the raise site; val is the returned list; opened tells whether
\* the call got as far as opening a cache file.
Outcome(op, kind, err, msg, val, opened) ==
  [op |-> op, kind |-> kind, err |-> err, msg |-> msg, val |-> val, opened |-> opened]

NoCall == Outcome("none", "none", "", "", << >>, FALSE)

NoArgs == [hemi |-> "", radius |-> 0, vertex_id2 |-> 0, ds |-> None]

\* The cache file name of a (hemi, radius) pair, shared by the pipeline
\* (which writes it) and the engine (which reads it).
CachePath(hemi, radius) == << hemi, radius >>

\* Decoding of a cache file's text, __init__ lines 67-71: <<table>> or <<>>.
DecodeTable(t) == reshape(fromstring(Replace(t, "\n", ",")), nverts)

\* Variant of CachedSurfaceQueryEngine that opens the cache file before it checks hemi and
\* radius.
CachedSurfaceQueryEngine_load_first(a_hemi, a_radius, fs) ==
  IF CachePath(a_hemi, a_radius) \notin DOMAIN fs
    THEN [out |-> Outcome("construct", "error", "IOError", "No such file", << >>, TRUE),
          obj |-> None]
  ELSE IF a_hemi \notin { "lh", "rh" }
    THEN [out |-> Outcome("construct", "error", "ValueError", "hemi must be either lh or rh", << >>, TRUE),
          obj |-> None]
  ELSE IF a_radius \notin Elems(PyRange(8, 22, 2))
    THEN [out |-> Outcome("construct", "error", "ValueError", "Radius must be one of", << >>, TRUE),
          obj |-> None]
  ELSE [out |-> Outcome("construct", "ok", "", "", << >>, TRUE),
        obj |-> Some([hemi |-> a_hemi, radius |-> a_radius,
                      sl |-> Val(DecodeTable(fs[CachePath(a_hemi, a_radius)])),
                      invalid |-> invalid, nverts |-> nverts])]

\* __init__(hemi, radius): the outcome and, on success, the new object.
CachedSurfaceQueryEngine(a_hemi, a_radius, fs) ==
  IF a_hemi \notin { "lh", "rh" }
    THEN [out |-> Outcome("construct", "error", "ValueError", "hemi must be either lh or rh", << >>, FALSE),
          obj |-> None]
  ELSE IF a_radius \notin Elems(PyRange(8, 22, 2))
    THEN [out |-> Outcome("construct", "error", "ValueError", "Radius must be one of", << >>, FALSE),
          obj |-> None]
  ELSE IF CachePath(a_hemi, a_radius) \notin DOMAIN fs
    THEN [out |-> Outcome("construct", "error", "IOError", "No such file", << >>, TRUE),
          obj |-> None]
  ELSE LET table == DecodeTable(fs[CachePath(a_hemi, a_radius)])
       IN  IF IsNone(table)
             THEN [out |-> Outcome("construct", "error", "ValueError", "cannot reshape array", << >>, TRUE),
                   obj |-> None]
             ELSE [out |-> Outcome("construct", "ok", "", "", << >>, TRUE),
                   obj |-> Some([hemi |-> a_hemi, radius |-> a_radius, sl |-> Val(table),
                                 invalid |-> invalid, nverts |-> nverts])]

\* _check_trained(): TRUE when it raises.
_check_trained(v2f) == IsNone(v2f)

\* np.setdiff1d(vertex_ids, np.arange(nvertices)), as a set.
setdiff1d(ids, n) == Elems(ids) \ Elems(PyRange(0, n, 1))

\* Variant of DictOfZip in which the first pair with a key is kept.
DictOfZipFirstWins(ids) ==
  [k \in Elems(ids) |-> (CHOOSE i \in DOMAIN ids : ids[i] = k /\ \A j \in DOMAIN ids : ids[j] = k => i <= j) - 1]

\* dict(zip(vertex_ids, xrange(vertex_ids.size))): the pairs are inserted in
\* order, so a later pair replaces an earlier one with the same key.
RECURSIVE DictInsert(_, _, _)
DictInsert(d, ids, i) ==
  IF i > Len(ids) THEN d
  ELSE DictInsert([k \in (DOMAIN d) \cup { ids[i] } |-> IF k = ids[i] THEN i - 1 ELSE d[k]],
                  ids, i + 1)

DictOfZip(ids) == DictInsert(<< >>, ids, 1)

\* Variant of train that builds the map before it checks the ids.
train_assign_first(self, v2f, ds) ==
  IF IsNone(ds)
    THEN [out |-> Outcome("train", "error", "ValueError", "Attribute not found", << >>, FALSE),
          map |-> v2f]
  ELSE IF Cardinality(Elems(Val(ds)) \ Elems(PyRange(0, self.nverts, 1))) # 0
    THEN [out |-> Outcome("train", "error", "ValueError", "Vertex id found that is not in np.arange", << >>, FALSE),
          map |-> Some([k \in Elems(Val(ds)) |-> 0])]
  ELSE [out |-> Outcome("train", "ok", "", "", << >>, FALSE),
        map |-> Some([k \in Elems(Val(ds)) |-> 0])]

\* train(ds): the outcome and the value of _vertex2feature_map afterwards.
\* ds.fa is <<>> when the dataset has no node_indices attribute, else <<ids>>.
train(self, v2f, ds) ==
  IF IsNone(ds)
    THEN [out |-> Outcome("train", "error", "ValueError", "Attribute not found", << >>, FALSE),
          map |-> v2f]
  ELSE IF Cardinality(setdiff1d(Val(ds), self.nverts)) # 0
    THEN [out |-> Outcome("train", "error", "ValueError", "Vertex id found that is not in np.arange", << >>, FALSE),
          map |-> v2f]
  ELSE [out |-> Outcome("train", "ok", "", "", << >>, FALSE),
        map |-> Some(DictOfZip(Val(ds)))]

\* round(x) of Python 2 on a number carried as twice its value: halves are
\* rounded away from zero.
Round2(h) == IF h % 2 = 0 THEN h ELSE IF h > 0 THEN h + 1 ELSE h - 1

\* numpy row indexing sl[i, :]: a negative i counts from the end; <<>> when
\* i is out of bounds (IndexError).
RowAt(sl, i) ==
  LET j == IF i < 0 THEN i + Len(sl) ELSE i
  IN  IF j < 0 \/ j >= Len(sl) THEN None ELSE Some(sl[j + 1])

\* Variant of DropInvalid that keeps the positive ids only
\* (nearby_nodes[nearby_nodes > 0]).
DropNotPositive(row, inv) == SelectSeq(row, LAMBDA x : x > 0)

\* Variant of DropInvalid that keeps the padding.
KeepInvalid(row, inv) == row

\* nearby_nodes[nearby_nodes != self.invalid]
RECURSIVE DropInvalid(_, _)
DropInvalid(row, inv) ==
  IF row = << >> THEN << >>
  ELSE (IF Head(row) # inv THEN << Head(row) >> ELSE << >>) \o DropInvalid(Tail(row), inv)

\* Variant of LookupAll that skips the nodes that are not keys.
RECURSIVE LookupPresent(_, _)
LookupPresent(d, nodes) ==
  IF nodes = << >> THEN Some(<< >>)
  ELSE LET rest == LookupPresent(d, Tail(nodes))
       IN  IF Head(nodes) \notin DOMAIN d THEN rest ELSE Some(<< d[Head(nodes)] >> \o Val(rest))

\* [v2f[node] for node in nearby_nodes]: <<>> when some node is not a key
\* (KeyError, nothing is returned), else <<list>>.
RECURSIVE LookupAll(_, _)
LookupAll(d, nodes) ==
  IF nodes = << >> THEN Some(<< >>)
  ELSE IF Head(nodes) \notin DOMAIN d THEN None
  ELSE LET rest == LookupAll(d, Tail(nodes))
       IN  IF IsNone(rest) THEN None ELSE Some(<< d[Head(nodes)] >> \o Val(rest))

\* Variant of query_byid that checks the range of vertex_id before the
\* trained state.
query_byid_range_first(self, v2f, h) ==
  IF h < 0 \/ h >= 2 * self.nverts \/ Round2(h) # h
    THEN Outcome("query", "error", "KeyError", "vertex_id should be integer in range", << >>, FALSE)
  ELSE IF IsNone(v2f)
    THEN Outcome("query", "error", "ValueError", "Not trained on dataset", << >>, FALSE)
  ELSE LET nearby_features == LookupAll(Val(v2f), DropInvalid(Val(RowAt(self.sl, h \div 2)), self.invalid))
       IN  IF IsNone(nearby_features)
             THEN Outcome("query", "error", "KeyError", "node not in _vertex2feature_map", << >>, FALSE)
             ELSE Outcome("query", "ok", "", "", Val(nearby_features), FALSE)

\* Variant of query_byid without the test vertex_id < 0.
query_byid_no_lower_bound(self, v2f, h) ==
  IF IsNone(v2f)
    THEN Outcome("query", "error", "ValueError", "Not trained on dataset", << >>, FALSE)
  ELSE IF h >= 2 * self.nverts \/ Round2(h) # h
    THEN Outcome("query", "error", "KeyError", "vertex_id should be integer in range", << >>, FALSE)
  ELSE LET row == RowAt(self.sl, h \div 2)
       IN  IF IsNone(row)
             THEN Outcome("query", "error", "IndexError", "index out of bounds", << >>, FALSE)
             ELSE LET nearby_features == LookupAll(Val(v2f), DropInvalid(Val(row), self.invalid))
                  IN  IF IsNone(nearby_features)
                        THEN Outcome("query", "error", "KeyError", "node not in _vertex2feature_map", << >>, FALSE)
                        ELSE Outcome("query", "ok", "", "", Val(nearby_features), FALSE)

\* query_byid(vertex_id), with vertex_id = h / 2.
query_byid(self, v2f, h) ==
  IF _check_trained(v2f)
    THEN Outcome("query", "error", "ValueError", "Not trained on dataset", << >>, FALSE)
  ELSE IF h < 0 \/ h >= 2 * self.nverts \/ Round2(h) # h
    THEN Outcome("query", "error", "KeyError", "vertex_id should be integer in range", << >>, FALSE)
  ELSE LET row == RowAt(self.sl, h \div 2)
       IN  IF IsNone(row)
             THEN Outcome("query", "error", "IndexError", "index out of bounds", << >>, FALSE)
             ELSE LET nearby_features == LookupAll(Val(v2f), DropInvalid(Val(row), self.invalid))
                  IN  IF IsNone(nearby_features)
                        THEN Outcome("query", "error", "KeyError", "node not in _vertex2feature_map", << >>, FALSE)
                        ELSE Outcome("query", "ok", "", "", Val(nearby_features), FALSE)

---------------------------------------------------------------------------
(* Mesh adjacency, lib/npdl_utils.py: Surface.construct_neighbors *)

\* Variant of other_inds that names only the next position of the face.
other_inds_next(i) == CASE i = 1 -> << 2, 2 >> [] i = 2 -> << 3, 3 >> [] i = 3 -> << 1, 1 >>

\* list({0, 1, 2} - {i}), as 1-based positions in a face.
other_inds(i) == CASE i = 1 -> << 2, 3 >> [] i = 2 -> << 1, 3 >> [] i = 3 -> << 1, 2 >>

\* nbr_dict.get(key, [])
DictGet(d, key) == IF key \in DOMAIN d THEN d[key] ELSE << >>

DictPut(d, key, value) ==
  [k \in (DOMAIN d) \cup { key } |-> IF k = key THEN value ELSE d[k]]

\* The body of the loop over i for one face: the two other vertices of the
\* face are appended to the list of face[i].
RECURSIVE AddFaceToDict(_, _, _)
AddFaceToDict(d, face, i) ==
  IF i > 3 THEN d
  ELSE LET nbd == DictGet(d, face[i]) \o [k \in 1..2 |-> face[other_inds(i)[k]]]
       IN  AddFaceToDict(DictPut(d, face[i], nbd), face, i + 1)

\* The loop over self.faces.
RECURSIVE BuildNbrDict(_, _)
BuildNbrDict(d, fs) ==
  IF fs = << >> THEN d ELSE BuildNbrDict(AddFaceToDict(d, Head(fs), 1), Tail(fs))

\* np.unique(list): the distinct values in ascending order.
RECURSIVE SortedSeqOf(_)
SortedSeqOf(S) ==
  IF S = { } THEN << >>
  ELSE LET m == CHOOSE x \in S : \A y \in S : x <= y
       IN  << m >> \o SortedSeqOf(S \ { m })

\* A variant that keeps the list as it was collected, repeats included.
unique_keep_repeats(list) == list

unique(list) == SortedSeqOf(Elems(list))

\* construct_neighbors(max_neighbors) on a mesh of n vertices: the padded
\* adjacency table, or the exception that ends the call (KeyError when a
\* vertex is in no face, ValueError when a vertex has more than max_neighbors
\* neighbours and its row assignment cannot be broadcast).
construct_neighbors(fs, n, max_neighbors) ==
  LET nbr_dict == BuildNbrDict(<< >>, fs)
      covered  == \A v \in 0..(n - 1) : v \in DOMAIN nbr_dict
      nbd(v)   == unique(nbr_dict[v])
  IN  IF ~covered THEN [err |-> "KeyError", table |-> None]
      ELSE IF \E v \in 0..(n - 1) : Len(nbd(v)) > max_neighbors
        THEN [err |-> "ValueError", table |-> None]
      ELSE LET actual_max_neighbors == SeqMax([v \in 1..n |-> Len(nbd(v - 1))] \o << 0 >>)
               full == [v \in 1..n |-> nbd(v - 1) \o Repeat(n, max_neighbors - Len(nbd(v - 1)))]
           IN  [err |-> "",
                table |-> Some([v \in 1..n |-> SubSeq(full[v], 1, actual_max_neighbors)])]

---------------------------------------------------------------------------
(* Pipeline: one iteration of the loop body, make_searchlight.py lines 25-39 *)

\* What the external generator leaves in sl_f, by the way its run ended:
\* nothing, the complete ROI table, or a table cut short.
GeneratorOutput(hemi, radius, outcome) ==
  CASE outcome = "ok"                  -> Some(GenRoi(hemi, radius))
    [] outcome = "fail_no_output"      -> None
    [] outcome = "fail_output"         -> Some(GenRoi(hemi, radius))
    [] outcome = "fail_partial_output" -> Some(SubSeq(GenRoi(hemi, radius), 1, num_verts - 1))

GeneratorOutcomes == { "ok", "fail_no_output", "fail_output", "fail_partial_output" }

GeneratorFailed(outcome) == outcome # "ok"

\* The loop body for unit u: sp.call's exit status is not looked at; img_read
\* raises NPDLError when sl_f does not exist, which ends the script; otherwise
\* the table is encoded and written to the unit's cache file.
PipelineBody(u, outcome, fs) ==
  LET hemi   == Units[u][1]
      radius == Units[u][2]
      sl     == GeneratorOutput(hemi, radius, outcome)
  IN  IF IsNone(sl)
        THEN [raised |-> TRUE, files |-> fs]
        ELSE [raised |-> FALSE,
              files  |-> [q \in (DOMAIN fs) \cup { CachePath(hemi, radius) } |->
                            IF q = CachePath(hemi, radius) THEN EncodeTable(Val(sl)) ELSE fs[q]]]

PipelineIteration(outcome) ==
  /\ pc = "loop"
  /\ unit <= NumUnits
  /\ GeneratorFailed(outcome) => Cardinality(failed) < MaxFailures
  /\ LET r == PipelineBody(unit, outcome, files)
     IN  /\ files' = r.files
         /\ invocations' = [invocations EXCEPT ![unit] = @ + 1]
         /\ failed' = IF GeneratorFailed(outcome) THEN failed \cup { unit } ELSE failed
         /\ written' = IF r.raised THEN written ELSE written \cup { unit }
         /\ unit' = IF r.raised THEN unit ELSE unit + 1
         /\ pc' = IF r.raised THEN "aborted"
                  ELSE IF unit + 1 > NumUnits THEN "done" ELSE "loop"
  /\ UNCHANGED <<engineVars, codecVars, surfVars, readerVars>>

\* The cache directory after a pipeline run in which the generator worked
\* for the first k units and then left no output (k = NumUnits: a full run).
RECURSIVE FilesAfter(_)
FilesAfter(k) ==
  IF k = 0 THEN << >> ELSE PipelineBody(k, "ok", FilesAfter(k - 1)).files

---------------------------------------------------------------------------
(* Engine: the calls a user makes *)

HemiInputs == { "lh", "rh", "xx" }

RadiusInputs == { 6, 8, 9, 20, 22 }

\* Vertex ids handed to query_byid, as twice their value: -1, -0.5, 0, ...,
\* nverts, nverts + 0.5.
VertexInputs2 == (-2) .. (2 * nverts + 1)

RECURSIVE SeqsUpTo(_, _)
SeqsUpTo(S, n) ==
  IF n = 0 THEN { << >> }
  ELSE LET shorter == SeqsUpTo(S, n - 1)
       IN  shorter \cup { Append(q, x) : q \in { t \in shorter : Len(t) = n - 1 }, x \in S }

\* Datasets handed to train: without the node_indices attribute, or with a
\* list of vertex ids, some of which may lie outside range(nverts).
TrainInputsAll == { None } \cup { Some(ids) : ids \in SeqsUpTo((-1) .. nverts, MaxTrainLen) }

\* The same, with the lists that hold an id outside range(nverts) kept to
\* those of one element.
TrainInputs ==
  { None } \cup { Some(ids) : ids \in SeqsUpTo(0 .. (nverts - 1), MaxTrainLen) }
           \cup { Some(<< x >>) : x \in { -1, nverts } }

NoHist == [op |-> "none", ids |-> << >>]

Construct(a_hemi, a_radius) ==
  LET r == CachedSurfaceQueryEngine(a_hemi, a_radius, files)
  IN  /\ ret' = r.out
      /\ args' = [NoArgs EXCEPT !.hemi = a_hemi, !.radius = a_radius]
      /\ IF r.out.kind = "ok"
           THEN /\ qe' = r.obj
                /\ _vertex2feature_map' = None
                /\ hist' = NoHist
           ELSE UNCHANGED <<qe, _vertex2feature_map, hist>>
      /\ UNCHANGED <<files, pipeVars, codecVars, surfVars, readerVars>>

Train(ds) ==
  /\ ~IsNone(qe)
  /\ LET r == train(Val(qe), _vertex2feature_map, ds)
     IN  /\ ret' = r.out
         /\ args' = [NoArgs EXCEPT !.ds = ds]
         /\ _vertex2feature_map' = r.map
         /\ hist' = IF r.out.kind = "ok" THEN [op |-> "train", ids |-> Val(ds)] ELSE hist
  /\ UNCHANGED <<files, qe, pipeVars, codecVars, surfVars, readerVars>>

\* untrain(): self._vertex2feature_map = None
Untrain ==
  /\ ~IsNone(qe)
  /\ _vertex2feature_map' = None
  /\ ret' = Outcome("untrain", "ok", "", "", << >>, FALSE)
  /\ args' = NoArgs
  /\ hist' = [op |-> "untrain", ids |-> << >>]
  /\ UNCHANGED <<files, qe, pipeVars, codecVars, surfVars, readerVars>>

Query(h) ==
  /\ ~IsNone(qe)
  /\ ret' = query_byid(Val(qe), _vertex2feature_map, h)
  /\ args' = [NoArgs EXCEPT !.vertex_id2 = h]
  /\ UNCHANGED <<files, qe, _vertex2feature_map, hist, pipeVars, codecVars, surfVars, readerVars>>

---------------------------------------------------------------------------
(* Initial values and specifications *)

\* No query_byid call has been made by any reader.
NoFrame == [vertex_id2 |-> 0, nearby_nodes |-> << >>, v2f |-> None, nearby_features |-> << >>]

IdleReader == [pc |-> "idle", vertex_id2 |-> 0, ret |-> NoCall]

ReadersIdle ==
  /\ readers = [r \in 1..NumReaders |-> IdleReader]
  /\ frames = [r \in 1..NumReaders |-> NoFrame]

EngineIdle ==
  /\ qe = None
  /\ _vertex2feature_map = None
  /\ ret = NoCall
  /\ args = NoArgs
  /\ hist = NoHist

PipeIdle ==
  /\ pc = "idle"
  /\ unit = 1
  /\ failed = { }
  /\ invocations = [u \in 1..NumUnits |-> 0]
  /\ written = { }

CodecIdle ==
  /\ mask = << >>
  /\ text = << >>
  /\ decoded = None
  /\ cpc = "idle"

SurfIdle ==
  /\ faces = << >>
  /\ neighbors = None
  /\ spc = "idle"

\* The engine, used on the cache directory some pipeline run has left: none
\* of the units done, the left hemisphere's units done, or all of them.
Init ==
  /\ files \in { FilesAfter(k) : k \in { 0, Len(radii), NumUnits } }
  /\ EngineIdle /\ PipeIdle /\ CodecIdle /\ SurfIdle /\ ReadersIdle

Next ==
  \/ \E a_hemi \in HemiInputs, a_radius \in RadiusInputs : Construct(a_hemi, a_radius)
  \/ \E ds \in TrainInputs : Train(ds)
  \/ Untrain
  \/ \E h \in VertexInputs2 : Query(h)

Spec == Init /\ [][Next]_vars

\* train and untrain on a constructed engine, with every dataset up to the
\* bounds.
InitTrain ==
  /\ files = FilesAfter(NumUnits)
  /\ qe = CachedSurfaceQueryEngine("lh", 8, files).obj
  /\ _vertex2feature_map = None
  /\ ret = CachedSurfaceQueryEngine("lh", 8, files).out
  /\ args = [NoArgs EXCEPT !.hemi = "lh", !.radius = 8]
  /\ hist = NoHist
  /\ PipeIdle /\ CodecIdle /\ SurfIdle /\ ReadersIdle

NextTrain ==
  \/ \E ds \in TrainInputsAll : Train(ds)
  \/ Untrain

SpecTrain == InitTrain /\ [][NextTrain]_vars

\* The pipeline, started on an empty cache directory.
InitPipeline ==
  /\ files = << >>
  /\ pc = "loop"
  /\ unit = 1
  /\ failed = { }
  /\ invocations = [u \in 1..NumUnits |-> 0]
  /\ written = { }
  /\ EngineIdle /\ CodecIdle /\ SurfIdle /\ ReadersIdle

NextPipeline == \E outcome \in GeneratorOutcomes : PipelineIteration(outcome)

SpecPipeline == InitPipeline /\ [][NextPipeline]_vars

---------------------------------------------------------------------------
(* Encoding by the pipeline followed by decoding by the engine *)

\* ROI tables as img_read returns them: one 0/1 row per vertex, at least one
\* vertex in some ROI.
Masks ==
  { m \in [1..num_verts -> [1..num_verts -> { 0, 1 }]] :
      \E r \in 1..num_verts : \E c \in 1..num_verts : m[r][c] = 1 }

\* make_searchlight.py lines 30-38 on the table read from sl_f.
CodecEncode ==
  /\ cpc = "start"
  /\ text' = EncodeTable(mask)
  /\ cpc' = "encoded"
  /\ UNCHANGED <<files, mask, decoded, engineVars, pipeVars, surfVars, readerVars>>

\* npdl_mvpa.py lines 67-71 on the text of the file.
CodecDecode ==
  /\ cpc = "encoded"
  /\ decoded' = DecodeTable(text)
  /\ cpc' = "decoded"
  /\ UNCHANGED <<files, mask, text, engineVars, pipeVars, surfVars, readerVars>>

InitCodec ==
  /\ files = << >>
  /\ mask \in Masks
  /\ text = << >>
  /\ decoded = None
  /\ cpc = "start"
  /\ EngineIdle /\ PipeIdle /\ SurfIdle /\ ReadersIdle

NextCodec == CodecEncode \/ CodecDecode

SpecCodec == InitCodec /\ [][NextCodec]_vars

---------------------------------------------------------------------------
(* Building the adjacency table of a mesh *)

\* Triangles of the mesh: triples of vertex ids in range(MeshVerts).
FaceInputs == { << a, b, c >> : a \in 0..(MeshVerts - 1), b \in 0..(MeshVerts - 1),
                                c \in 0..(MeshVerts - 1) }

\* Surface(surf_path, max_neighbors=50): the default and a small value.
MaxNeighborsInputs == { 1, 50 }

\* The mesh file's face array grows by one triangle.
AddFace(face) ==
  /\ spc = "mesh"
  /\ Len(faces) < MaxFaces
  /\ faces' = Append(faces, face)
  /\ UNCHANGED <<files, neighbors, spc, engineVars, pipeVars, codecVars, readerVars>>

\* Surface.__init__: self.neighbors = self.construct_neighbors(max_neighbors)
Build(max_neighbors) ==
  /\ spc = "mesh"
  /\ LET r == construct_neighbors(faces, MeshVerts, max_neighbors)
     IN  /\ neighbors' = r.table
         /\ spc' = IF r.err = "" THEN "built" ELSE r.err
  /\ UNCHANGED <<files, faces, engineVars, pipeVars, codecVars, readerVars>>

InitSurface ==
  /\ files = << >>
  /\ faces = << >>
  /\ neighbors = None
  /\ spc = "mesh"
  /\ EngineIdle /\ PipeIdle /\ CodecIdle /\ ReadersIdle

NextSurface ==
  \/ \E face \in FaceInputs : AddFace(face)
  \/ \E max_neighbors \in MaxNeighborsInputs : Build(max_neighbors)

SpecSurface == InitSurface /\ [][NextSurface]_vars

\* Triangles as a mesh file can hold them: the face array is read as it is
\* (no check against the number of coordinates), so an index may be -1,
\* any vertex id, or MeshVerts.
FaceInputsAny == { << a, b, c >> : a \in (-1)..MeshVerts, b \in (-1)..MeshVerts,
                                   c \in (-1)..MeshVerts }

NextSurfaceAny ==
  \/ \E face \in FaceInputsAny : AddFace(face)
  \/ \E max_neighbors \in MaxNeighborsInputs : Build(max_neighbors)

SpecSurfaceAny == InitSurface /\ [][NextSurfaceAny]_vars

---------------------------------------------------------------------------
(* Several threads calling query_byid on one trained engine *)

\* The integer and non-integer, in-range and out-of-range ids the readers ask for.
ReaderVertexInputs2 == { -2, 0, 1, 2 * (nverts - 1), 2 * nverts }

\* The engine is trained on the first k vertices, k = 1..nverts.
ReaderTrainLists == { PyRange(0, k, 1) : k \in 1..nverts }

\* Variant of FrameOf in which every call keeps its local variables in one
\* place (as attributes of the engine would be).
SharedFrame(r) == 1

\* Every call of query_byid has its own frame of local variables
\* (vertex_id, nearby_nodes, v2f, nearby_features).
FrameOf(r) == r

Frame(r) == frames[FrameOf(r)]

\* The call of reader r ends with outcome out (a return or a raise).
ReaderEnds(r, out) ==
  readers' = [readers EXCEPT ![r].pc = "done", ![r].ret = out]

ReaderGoes(r, to) ==
  readers' = [readers EXCEPT ![r].pc = to]

\* Reader r calls query_byid(h / 2).
ReaderCall(r, h) ==
  /\ readers[r].pc = "idle"
  /\ readers' = [readers EXCEPT ![r] = [pc |-> "check_trained", vertex_id2 |-> h, ret |-> NoCall]]
  /\ frames' = [frames EXCEPT ![FrameOf(r)].vertex_id2 = h]
  /\ UNCHANGED <<files, engineVars, pipeVars, codecVars, surfVars>>

\* self._check_trained()
ReaderCheckTrained(r) ==
  /\ readers[r].pc = "check_trained"
  /\ IF _check_trained(_vertex2feature_map)
       THEN ReaderEnds(r, Outcome("query", "error", "ValueError", "Not trained on dataset", << >>, FALSE))
       ELSE ReaderGoes(r, "check_range")
  /\ UNCHANGED <<files, engineVars, pipeVars, codecVars, surfVars, frames>>

\* if (vertex_id < 0 or vertex_id >= self.nverts or round(vertex_id) != vertex_id)
ReaderCheckRange(r) ==
  /\ readers[r].pc = "check_range"
  /\ LET h == Frame(r).vertex_id2
     IN  IF h < 0 \/ h >= 2 * Val(qe).nverts \/ Round2(h) # h
           THEN ReaderEnds(r, Outcome("query", "error", "KeyError", "vertex_id should be integer in range", << >>, FALSE))
           ELSE ReaderGoes(r, "read_row")
  /\ UNCHANGED <<files, engineVars, pipeVars, codecVars, surfVars, frames>>

\* nearby_nodes = self.sl[vertex_id, :]
ReaderReadRow(r) ==
  /\ readers[r].pc = "read_row"
  /\ LET row == RowAt(Val(qe).sl, Frame(r).vertex_id2 \div 2)
     IN  IF IsNone(row)
           THEN /\ ReaderEnds(r, Outcome("query", "error", "IndexError", "index out of bounds", << >>, FALSE))
                /\ UNCHANGED frames
           ELSE /\ ReaderGoes(r, "filter")
                /\ frames' = [frames EXCEPT ![FrameOf(r)].nearby_nodes = Val(row)]
  /\ UNCHANGED <<files, engineVars, pipeVars, codecVars, surfVars>>

\* nearby_nodes = nearby_nodes[nearby_nodes != self.invalid]
ReaderFilter(r) ==
  /\ readers[r].pc = "filter"
  /\ frames' = [frames EXCEPT ![FrameOf(r)].nearby_nodes =
                                DropInvalid(Frame(r).nearby_nodes, Val(qe).invalid)]
  /\ ReaderGoes(r, "read_map")
  /\ UNCHANGED <<files, engineVars, pipeVars, codecVars, surfVars>>

\* v2f = self._vertex2feature_map, and the empty result list of the
\* comprehension.
ReaderReadMap(r) ==
  /\ readers[r].pc = "read_map"
  /\ frames' = [frames EXCEPT ![FrameOf(r)].v2f = _vertex2feature_map,
                              ![FrameOf(r)].nearby_features = << >>]
  /\ ReaderGoes(r, "lookup")
  /\ UNCHANGED <<files, engineVars, pipeVars, codecVars, surfVars>>

\* One turn of [v2f[node] for node in nearby_nodes]: the next node is looked
\* up (KeyError when it is not a key), or the list is complete.
ReaderLookup(r) ==
  /\ readers[r].pc = "lookup"
  /\ LET f == Frame(r)
         k == Len(f.nearby_features) + 1
     IN  IF k > Len(f.nearby_nodes)
           THEN /\ ReaderGoes(r, "return")
                /\ UNCHANGED frames
         ELSE IF f.nearby_nodes[k] \notin DOMAIN Val(f.v2f)
           THEN /\ ReaderEnds(r, Outcome("query", "error", "KeyError", "node not in _vertex2feature_map", << >>, FALSE))
                /\ UNCHANGED frames
         ELSE /\ frames' = [frames EXCEPT ![FrameOf(r)].nearby_features =
                                            Append(f.nearby_features, Val(f.v2f)[f.nearby_nodes[k]])]
              /\ UNCHANGED readers
  /\ UNCHANGED <<files, engineVars, pipeVars, codecVars, surfVars>>

\* return nearby_features
ReaderReturn(r) ==
  /\ readers[r].pc = "return"
  /\ ReaderEnds(r, Outcome("query", "ok", "", "", Frame(r).nearby_features, FALSE))
  /\ UNCHANGED <<files, engineVars, pipeVars, codecVars, surfVars, frames>>

\* An engine constructed on the (lh, 8) cache and trained; no train() or
\* untrain() runs while the readers query.
InitReaders ==
  /\ files = FilesAfter(NumUnits)
  /\ qe = CachedSurfaceQueryEngine("lh", 8, files).obj
  /\ \E ids \in ReaderTrainLists :
       /\ _vertex2feature_map = train(Val(qe), None, Some(ids)).map
       /\ hist = [op |-> "train", ids |-> ids]
       /\ args = [NoArgs EXCEPT !.ds = Some(ids)]
  /\ ret = Outcome("train", "ok", "", "", << >>, FALSE)
  /\ PipeIdle /\ CodecIdle /\ SurfIdle /\ ReadersIdle

NextReaders ==
  \E r \in 1..NumReaders :
    \/ \E h \in ReaderVertexInputs2 : ReaderCall(r, h)
    \/ ReaderCheckTrained(r)
    \/ ReaderCheckRange(r)
    \/ ReaderReadRow(r)
    \/ ReaderFilter(r)
    \/ ReaderReadMap(r)
    \/ ReaderLookup(r)
    \/ ReaderReturn(r)

SpecReaders == InitReaders /\ [][NextReaders]_vars

---------------------------------------------------------------------------
(* Properties of the query engine *)

Trained == ~IsNone(_vertex2feature_map)

\* The vertex id of the last query is an integer in range(nverts).
QueriedInRange ==
  /\ args.vertex_id2 % 2 = 0
  /\ args.vertex_id2 \div 2 \in 0..(nverts - 1)

\* The cached row of the vertex of the last query.
QueriedRow == Val(qe).sl[(args.vertex_id2 \div 2) + 1]

NotSentinel(x) == x # -99

UntrainedError(r) ==
  r.kind = "error" /\ r.err = "ValueError" /\ r.msg = "Not trained on dataset" /\ r.val = << >>

RangeError(r) ==
  r.kind = "error" /\ r.err = "KeyError" /\ r.msg = "vertex_id should be integer in range"
  /\ r.val = << >>

LookupError(r) ==
  r.kind = "error" /\ r.err = "KeyError" /\ r.msg = "node not in _vertex2feature_map"
  /\ r.val = << >>

LastIndexMap(ids) ==
  [v \in Elems(ids) |->
     (CHOOSE i \in DOMAIN ids : ids[i] = v /\ \A j \in DOMAIN ids : ids[j] = v => j <= i) - 1]

\* C2: the engine is Trained exactly when the most recent successful train or
\* untrain call on it was train, and its map is then the one built from that
\* train's list alone, the last position winning for a duplicated id; after
\* construction and after untrain the map is absent.
C2_StateMachine ==
  /\ Trained <=> hist.op = "train"
  /\ hist.op = "train" => Val(_vertex2feature_map) = LastIndexMap(hist.ids)
  /\ hist.op \in { "none", "untrain" } => _vertex2feature_map = None

\* Trained on a list with a duplicated id.
C2_Witness ==
  /\ hist.op = "train"
  /\ Len(hist.ids) = 2
  /\ hist.ids[1] = hist.ids[2]
  /\ Trained
  /\ Val(_vertex2feature_map)[hist.ids[1]] = 1

\* C3: on a Trained engine, for an integer vertex id in range whose cached row
\* holds only trained ids and sentinels, query returns the row without its
\* -99 entries, each id replaced by its feature index, in row order.
C3_QueryResult ==
  ( /\ ret.op = "query"
    /\ Trained
    /\ QueriedInRange
    /\ \A i \in DOMAIN QueriedRow :
         QueriedRow[i] # -99 => QueriedRow[i] \in DOMAIN Val(_vertex2feature_map) )
  => ( /\ ret.kind = "ok"
       /\ LET kept == SelectSeq(QueriedRow, NotSentinel)
          IN  /\ Len(ret.val) = Len(kept)
              /\ \A k \in DOMAIN kept : ret.val[k] = Val(_vertex2feature_map)[kept[k]] )

\* A successful query of a padded row.
C3_Witness ==
  /\ ret.op = "query"
  /\ ret.kind = "ok"
  /\ Trained
  /\ \E i \in DOMAIN QueriedRow : QueriedRow[i] = -99
  /\ Len(ret.val) = 2
  /\ ret.val[1] # ret.val[2]

\* C4: on a Trained engine, a query with vertex id -1, with vertex id nverts
\* or with a non-integer fails with the range error and produces no result.
C4_RangeChecked ==
  ( /\ ret.op = "query"
    /\ Trained
    /\ \/ args.vertex_id2 = -2
       \/ args.vertex_id2 = 2 * nverts
       \/ args.vertex_id2 % 2 = 1 )
  => RangeError(ret)

\* Vertex id -1 queried on an engine whose map covers the table's last row.
C4_Witness ==
  /\ ret.op = "query"
  /\ Trained
  /\ args.vertex_id2 = -2
  /\ \A i \in DOMAIN Val(qe).sl[nverts] :
       Val(qe).sl[nverts][i] # -99 => Val(qe).sl[nverts][i] \in DOMAIN Val(_vertex2feature_map)
  /\ RangeError(ret)

\* C5: on a Trained engine, when the cached row of an in-range vertex id holds
\* a non-sentinel id that is not in the map, query fails with the lookup error
\* and returns no list, not even that of the neighbours that are in the map.
C5_NoPartialList ==
  ( /\ ret.op = "query"
    /\ Trained
    /\ QueriedInRange
    /\ \E i \in DOMAIN QueriedRow :
         QueriedRow[i] # -99 /\ QueriedRow[i] \notin DOMAIN Val(_vertex2feature_map) )
  => LookupError(ret)

\* A failed query of a row of which one neighbour is in the map and a later
\* one is not.
C5_Witness ==
  /\ ret.op = "query"
  /\ Trained
  /\ QueriedInRange
  /\ \E i, j \in DOMAIN QueriedRow :
       /\ i < j
       /\ QueriedRow[i] \in DOMAIN Val(_vertex2feature_map)
       /\ QueriedRow[j] # -99
       /\ QueriedRow[j] \notin DOMAIN Val(_vertex2feature_map)
  /\ LookupError(ret)

\* A list of vertex ids with an id outside range(nverts).
HasIdOutOfRange(ids) == \E i \in DOMAIN ids : ids[i] < 0 \/ ids[i] >= nverts

\* C6: a train call whose list holds an id outside [0, nverts) fails, and it
\* leaves the engine as it was: the map (absent or present) is unchanged.
C6_FailedTrainKeepsState ==
  [][ ( /\ ret'.op = "train"
        /\ ~IsNone(args'.ds)
        /\ HasIdOutOfRange(Val(args'.ds)) )
      => ( /\ ret'.kind = "error"
           /\ ret'.err = "ValueError"
           /\ _vertex2feature_map' = _vertex2feature_map
           /\ hist' = hist ) ]_vars

\* A trained engine after a failed train whose list starts with a valid id.
C6_Witness ==
  /\ ret.op = "train"
  /\ ret.kind = "error"
  /\ ~IsNone(args.ds)
  /\ Len(Val(args.ds)) = 2
  /\ Val(args.ds)[1] \in 0..(nverts - 1)
  /\ Val(args.ds)[2] = nverts
  /\ Trained
  /\ Val(args.ds)[1] \notin DOMAIN Val(_vertex2feature_map)

\* The radii the engine's error message lists as allowed.
AllowedRadii == { 8, 10, 12, 14, 16, 18, 20 }

ValidArgs == args.hemi \in { "lh", "rh" } /\ args.radius \in AllowedRadii

ConfigurationError(r) ==
  r.kind = "error" /\ r.err = "ValueError" /\ ~r.opened

\* The engine the last construct call yielded: Loaded, no map, sentinel -99,
\* a table of nverts rows.
YieldedLoaded ==
  /\ ret.kind = "ok"
  /\ ~IsNone(qe)
  /\ Val(qe).hemi = args.hemi
  /\ Val(qe).radius = args.radius
  /\ Val(qe).invalid = -99
  /\ Len(Val(qe).sl) = nverts
  /\ ~Trained

\* C7 as stated: construct fails with a configuration error, without opening
\* a cache file, when hemi or radius is not allowed, and otherwise yields a
\* Loaded engine.
C7_AsStated ==
  ret.op = "construct" =>
    IF ~ValidArgs THEN ConfigurationError(ret) ELSE YieldedLoaded

\* C7, amended: construct fails with a configuration error, without opening a
\* cache file, when hemi or radius is not allowed; otherwise it opens the
\* cache file of (hemi, radius), fails with an I/O error when there is none,
\* and yields a Loaded engine when the file holds the table the pipeline
\* writes for that unit.
C7_ValidatesBeforeLoading ==
  ret.op = "construct" =>
    IF ~ValidArgs THEN ConfigurationError(ret)
    ELSE IF CachePath(args.hemi, args.radius) \notin DOMAIN files
      THEN ret.kind = "error" /\ ret.err = "IOError" /\ ret.opened
    ELSE (files[CachePath(args.hemi, args.radius)] = EncodeTable(GenRoi(args.hemi, args.radius)))
           => YieldedLoaded

\* A radius the pipeline generates and the engine refuses, asked for while
\* its cache file exists.
C7_Witness ==
  /\ ret.op = "construct"
  /\ args.hemi = "lh"
  /\ args.radius = 6
  /\ CachePath("lh", 6) \in DOMAIN files
  /\ ConfigurationError(ret)

---------------------------------------------------------------------------
(* Properties of the cache file format *)

\* The ROI of vertex r - 1 in the table handed to the encoder.
RowIds(r) == { c - 1 : c \in { k \in 1..num_verts : mask[r][k] # 0 } }

LongestRow == CHOOSE n \in 0..num_verts :
                /\ \E r \in 1..num_verts : Cardinality(RowIds(r)) = n
                /\ \A r \in 1..num_verts : Cardinality(RowIds(r)) <= n

\* C8: the pipeline's encoding has one line per vertex, each of max_row_len
\* comma-separated values, and the engine's decoding of it, with the -99
\* entries dropped, gives back for each vertex exactly the ids of its ROI, in
\* the (ascending) order in which they were written.
C8_RoundTrip ==
  /\ cpc \in { "encoded", "decoded" } =>
       LET lines == Split(text, "\n")
       IN  /\ Len(lines) = num_verts
           /\ \A r \in DOMAIN lines : Len(Split(lines[r], ",")) = LongestRow
  /\ cpc = "decoded" =>
       /\ ~IsNone(decoded)
       /\ Len(Val(decoded)) = num_verts
       /\ \A r \in 1..num_verts :
            LET d == SelectSeq(Val(decoded)[r], NotSentinel)
            IN  /\ Len(Val(decoded)[r]) = LongestRow
                /\ Len(d) = Cardinality(RowIds(r))
                /\ Elems(d) = RowIds(r)
                /\ \A i, j \in DOMAIN d : i < j => d[i] < d[j]

\* A decoded table with an empty ROI, a full ROI and one in between.
C8_Witness ==
  /\ cpc = "decoded"
  /\ ~IsNone(decoded)
  /\ \E r1, r2, r3 \in 1..num_verts :
       /\ Cardinality(RowIds(r1)) = 0
       /\ Cardinality(RowIds(r2)) = num_verts
       /\ Cardinality(RowIds(r3)) \notin { 0, num_verts }
       /\ \A i \in DOMAIN Val(decoded)[r1] : Val(decoded)[r1][i] = -99

---------------------------------------------------------------------------
(* Properties of the pipeline *)

\* C9: when the generator invocation of a unit fails, no cache file is
\* written for that unit and the generator is not invoked again for it.
C9_FailedUnitWritesNothing ==
  \A u \in failed :
    /\ u \notin written
    /\ CachePath(Units[u][1], Units[u][2]) \notin DOMAIN files
    /\ invocations[u] <= 1

---------------------------------------------------------------------------
(* Properties of the adjacency table *)

\* The neighbour set of vertex v in the built table: its row without the
\* sentinel.
NbrSet(v) == { x \in Elems(Val(neighbors)[v + 1]) : x # MeshVerts }

\* C10: in the table built from a mesh whose face indices are all in
\* range(MeshVerts), a is a neighbour of b exactly when b is one of a.
C10_AdjacencySymmetric ==
  spc = "built" =>
    \A a, b \in 0..(MeshVerts - 1) : (a \in NbrSet(b)) <=> (b \in NbrSet(a))

\* A built table with two adjacent vertices and two that are not.
C10_Witness ==
  /\ spc = "built"
  /\ \E a, b \in 0..(MeshVerts - 1) : a # b /\ a \in NbrSet(b) /\ b \in NbrSet(a)
  /\ \E c, d \in 0..(MeshVerts - 1) : c # d /\ c \notin NbrSet(d)

\* The neighbours the faces give vertex v: the other two vertices of every
\* face position that holds v.
FaceNbrs(v) ==
  { faces[t[1]][t[3]] :
      t \in { u \in (DOMAIN faces) \X (1..3) \X (1..3) :
                u[2] # u[3] /\ faces[u[1]][u[2]] = v } }

\* Row row holds the ids of set S once each in its first positions and the
\* sentinel pad in every position after them.
RowIsPadded(row, S, pad) ==
  /\ Len(row) >= Cardinality(S)
  /\ { row[i] : i \in 1..Cardinality(S) } = S
  /\ \A i \in (Cardinality(S) + 1)..Len(row) : row[i] = pad

\* The 4-vertex mesh with faces [[0,1,2],[0,2,3]].
TwoTriangles == << << 0, 1, 2 >>, << 0, 2, 3 >> >>

TwoTrianglesTable == construct_neighbors(TwoTriangles, 4, 50)

\* C11: the built table has one row per vertex and a width equal to the
\* largest neighbour-set size; each row holds the vertex's neighbours once
\* each and after them only the sentinel MeshVerts.  For the two-triangle
\* mesh of 4 vertices the width is 3 and the row of vertex 1 is [0,2,4].
C11_TableShape ==
  spc = "built" =>
    /\ Len(Val(neighbors)) = MeshVerts
    /\ \E w \in 0..(3 * MaxFaces) :
         /\ \A v \in 0..(MeshVerts - 1) : Len(Val(neighbors)[v + 1]) = w
         /\ \A v \in 0..(MeshVerts - 1) : Cardinality(FaceNbrs(v)) <= w
         /\ \E v \in 0..(MeshVerts - 1) : Cardinality(FaceNbrs(v)) = w
    /\ \A v \in 0..(MeshVerts - 1) :
         RowIsPadded(Val(neighbors)[v + 1], FaceNbrs(v), MeshVerts)
    /\ TwoTrianglesTable.err = ""
    /\ Len(Val(TwoTrianglesTable.table)) = 4
    /\ \A v \in 1..4 : Len(Val(TwoTrianglesTable.table)[v]) = 3
    /\ Val(TwoTrianglesTable.table)[2] = << 0, 2, 4 >>

\* A built table in which the faces repeat an edge, one vertex has fewer
\* neighbours than the width and its row ends in the sentinel.
C11_Witness ==
  /\ spc = "built"
  /\ Len(faces) = 2
  /\ faces[1] # faces[2]
  /\ \E v \in 0..(MeshVerts - 1) :
       /\ Cardinality(FaceNbrs(v)) < Len(Val(neighbors)[v + 1])
       /\ Val(neighbors)[v + 1][Len(Val(neighbors)[v + 1])] = MeshVerts

---------------------------------------------------------------------------
(* Self-membership of a queried vertex *)

\* The vertex of the last query.
QueriedVertex == args.vertex_id2 \div 2

\* The last query was made on a trained engine, for an integer vertex id in
\* range that is a key of the trained map.
QueriedTrainedVertex ==
  /\ ret.op = "query"
  /\ Trained
  /\ QueriedInRange
  /\ QueriedVertex \in DOMAIN Val(_vertex2feature_map)

\* Every vertex of the queried row is a key of the trained map.
QueriedRowTrained ==
  \A i \in DOMAIN QueriedRow :
    QueriedRow[i] # -99 => QueriedRow[i] \in DOMAIN Val(_vertex2feature_map)

\* C12 as stated: after training on a list that includes vertex v, query(v)
\* returns a list that contains the feature index mapped to v.
C12_AsStated ==
  QueriedTrainedVertex =>
    /\ ret.kind = "ok"
    /\ Val(_vertex2feature_map)[QueriedVertex] \in Elems(ret.val)

\* C12 amended: the cached row of v written by the pipeline contains v; after
\* training on a list that includes v, query(v) returns a list that contains
\* the feature index mapped to v when every vertex of the row is in the
\* trained list, and fails with a lookup error when one is not.
C12_SelfMembership ==
  QueriedTrainedVertex =>
    /\ QueriedVertex \in Elems(QueriedRow)
    /\ QueriedRowTrained =>
         /\ ret.kind = "ok"
         /\ Val(_vertex2feature_map)[QueriedVertex] \in Elems(ret.val)
    /\ ~QueriedRowTrained => LookupError(ret)

\* A query of a trained vertex whose row holds another trained vertex too:
\* the result holds the feature index of the vertex and one more.
C12_Witness ==
  /\ QueriedTrainedVertex
  /\ ret.kind = "ok"
  /\ Len(ret.val) >= 2
  /\ Val(_vertex2feature_map)[QueriedVertex] \in Elems(ret.val)
  /\ \E x \in Elems(ret.val) : x # Val(_vertex2feature_map)[QueriedVertex]

\* Some face of the mesh holds an index outside range(MeshVerts).
HasOutOfRangeFace ==
  \E f \in DOMAIN faces : \E i \in 1..3 : faces[f][i] \notin 0..(MeshVerts - 1)

\* C13: the build of a mesh with a face index outside range(MeshVerts) fails
\* and returns no table; no returned table holds an out-of-range index
\* (the value MeshVerts in particular) as a neighbour.
C13_OutOfRangeRejected ==
  /\ (spc # "mesh" /\ HasOutOfRangeFace) =>
       (spc \in { "KeyError", "ValueError" } /\ IsNone(neighbors))
  /\ spc = "built" =>
       \A v \in 0..(MeshVerts - 1) : FaceNbrs(v) \subseteq 0..(MeshVerts - 1)

---------------------------------------------------------------------------
(* Properties of concurrent queries *)

\* The outcome of the call of reader r when it runs alone.
AloneResult(r) == query_byid(Val(qe), _vertex2feature_map, readers[r].vertex_id2)

ReadersAgree ==
  \A r \in 1..NumReaders : readers[r].pc = "done" => readers[r].ret = AloneResult(r)

\* C14: on a trained engine with no train() or untrain() running, every
\* interleaving of the steps of the readers' query calls gives each reader
\* the result it gets running alone, and no step changes the cache table or
\* the trained map.
C14_ConcurrentQueries ==
  /\ []ReadersAgree
  /\ [][qe' = qe /\ _vertex2feature_map' = _vertex2feature_map]_vars

\* One reader has returned the features of a vertex while the call of
\* another reader, for a different vertex, is part-way through its lookups.
C14_Witness ==
  \E r1, r2 \in 1..NumReaders :
    /\ readers[r1].pc = "done"
    /\ readers[r1].ret.kind = "ok"
    /\ readers[r2].pc = "lookup"
    /\ readers[r1].vertex_id2 # readers[r2].vertex_id2
    /\ Len(frames[r2].nearby_features) = 1
    /\ Len(frames[r2].nearby_nodes) >= 2
    /\ frames[r1].nearby_nodes # frames[r2].nearby_nodes

---------------------------------------------------------------------------
(* Properties of the pipeline and the engine together *)

\* C15: every (hemisphere, radius) whose cache file the pipeline has written
\* is accepted by construct(hemisphere, radius), which yields an engine
\* loaded from that file.
C15_GeneratedCachesLoadable ==
  ( /\ ret.op = "construct"
    /\ \E u \in DOMAIN Units : Units[u] = << args.hemi, args.radius >>
    /\ CachePath(args.hemi, args.radius) \in DOMAIN files )
  => YieldedLoaded

===========================================================================
